---- MODULE Spec2Model ----
(***************************************************************************)
(* Model of internal/certificates/certificate_operations.go:               *)
(* ValidateResourceCertificates (submit, classify, poll loop) and          *)
(* GenerateCertificateForResource (submit, task wait), together with the   *)
(* helper predicates of internal/validation they call; the read paths      *)
(* GetCertificateForResourceInDomain and ReadCertificates.                 *)
(***************************************************************************)
EXTENDS Integers, Sequences, FiniteSets, TLC

(***************************************************************************)
(* Bounds of the model.                                                    *)
(***************************************************************************)
\* largest number of per-resource results one validation snapshot carries
MaxResources == 3
\* largest number of status queries one call is followed through
MaxPolls == 3
\* largest number of certificates one listing carries
MaxCerts == 3

(***************************************************************************)
(* Values.                                                                 *)
(***************************************************************************)
\* a nil *string (ValidationID is a pointer field of the SDK model)
Absent == "<nil>"
\* an id that is present but empty
EmptyId == ""
\* values a ValidationID can take
ValidationIds == {Absent, EmptyId, "V1", "V2"}
\* values a task ID (plain string) can take
TaskIds == {EmptyId, "T1", "T2"}

\* line 64: seconds slept between two status queries
PollInterval == 10

\* no error (a nil error value)
NoError == "nil"
\* an error returned because the caller's ctx is done
CtxCancelled == "context canceled"
\* the per-call timeout (DefaultVcfApiCallTimeout) expired
CallTimeout == "call timeout"
\* any other network/auth failure
TransportFailure == "transport failure"
Errors == {CtxCancelled, CallTimeout, TransportFailure}

OverallStatuses == {"IN_PROGRESS", "SUCCEEDED", "FAILED", "FAILED_WITH_WARNINGS"}
ResourceStatuses == {"SUCCESSFUL", "FAILED"}

\* the messages the control plane attaches to resource i's result
MessagesOf(i, status) ==
    IF status = "SUCCESSFUL" THEN <<>>
    ELSE IF i % 2 = 0 THEN <<10 * i + 1, 10 * i + 2>>
    ELSE <<10 * i + 1>>

\* one per-resource result; resources are named by their position
ResourceResult(i, status) ==
    [resourceFqdn |-> i, status |-> status, messages |-> MessagesOf(i, status)]

\* all ordered per-resource result sequences of at most MaxResources entries
PerResourceResults ==
    UNION { { [i \in 1..n |-> ResourceResult(i, st[i])] : st \in [1..n -> ResourceStatuses] }
            : n \in 0..MaxResources }

\* a nil *models.CertificateValidationTask
NilTask ==
    [isNil |-> TRUE, validationId |-> Absent, overallStatus |-> "NONE",
     perResourceResults |-> <<>>]

\* every validation snapshot the control plane can send
ValidationTasks ==
    { [isNil |-> FALSE, validationId |-> v, overallStatus |-> o, perResourceResults |-> r] :
        v \in ValidationIds, o \in OverallStatuses, r \in PerResourceResults }

(***************************************************************************)
(* Helpers of internal/validation.                                         *)
(***************************************************************************)
\* the failing subset of the terminal states
FailingStatuses == {"FAILED", "FAILED_WITH_WARNINGS"}

HaveCertificateValidationsFailed(task) ==
    /\ ~task.isNil
    /\ task.overallStatus \in FailingStatuses

HasCertificateValidationFinished(task) ==
    /\ ~task.isNil
    /\ task.overallStatus # "IN_PROGRESS"

RECURSIVE ReportFrom(_, _)
\* one report entry per failing resource, in result order, from position i on
ReportFrom(results, i) ==
    IF i > Len(results) THEN <<>>
    ELSE IF results[i].status = "FAILED"
         THEN <<[resourceFqdn |-> results[i].resourceFqdn,
                 messages |-> results[i].messages]>> \o ReportFrom(results, i + 1)
         ELSE ReportFrom(results, i + 1)

\* what a call has returned; kind "none" while it is still running
NoOutcome == [kind |-> "none", err |-> NoError, report |-> <<>>]
Success == [kind |-> "ok", err |-> NoError, report |-> <<>>]
\* a nil pointer dereference: the call does not return a value
Panic == [kind |-> "panic", err |-> NoError, report |-> <<>>]

ConvertCertificateValidationsResultToDiag(task) ==
    [kind |-> "ValidationFailed", err |-> NoError,
     report |-> ReportFrom(task.perResourceResults, 1)]

ConvertVcfErrorToDiag(e) ==
    [kind |-> "error", err |-> e, report |-> <<>>]

(***************************************************************************)
(* State.                                                                  *)
(***************************************************************************)
\* a response branch as the call remembers it: presence, id and status
NilBranch == [isNil |-> TRUE, id |-> Absent, overallStatus |-> "NONE"]
BranchOfTask(task) ==
    [isNil |-> task.isNil, id |-> task.validationId, overallStatus |-> task.overallStatus]

VARIABLES
    op,                 \* which exported function this call is
    pc,                 \* position of the call
    cancelled,          \* the caller's ctx is done
    cancelledAt,        \* position of the call when ctx became done
    queriesAtCancel,    \* status queries issued before ctx became done
    okResponse,         \* the 200 branch of the submit response
    acceptedResponse,   \* the 202 branch of the submit response
    submitErr,          \* the error the submit call returned
    err,                \* the outer err variable of the function
    validationResponse, \* the local validationResponse
    validationId,       \* the local validationId
    taskId,             \* the local taskId of GenerateCertificateForResource
    outcome,            \* what the call returned
    issuedCancelled,    \* ctx was already done when the query in flight was issued
    queryErr,           \* the error a status query returned
    nSubmits,           \* submit calls issued
    nQueries,           \* GetResourceCertificatesValidationByID calls issued
    nSleeps,            \* time.Sleep calls started
    sleptSeconds,       \* seconds the call was told to sleep in all
    nRunning,           \* status queries that returned an unfinished snapshot
    queryIds,           \* ids the status queries were issued with
    lastPayload,        \* payload of the last status query that returned one
    waits,              \* arguments of the WaitForTaskComplete calls issued
    listPayload,        \* the payload of the GetCertificatesByDomain response
    resourceFqdn,       \* the resourceFqdn argument of the lookup
    retCert,            \* the certificate GetCertificateForResourceInDomain returned
    retCerts,           \* the certificates ReadCertificates returned
    fieldsA,            \* a field sequence given to HashFields
    fieldsB,            \* a second field sequence given to HashFields
    hashResults,        \* what the HashFields calls returned, in call order
    certShape,          \* dynamic type of data.Get("certificate")
    certA,              \* the certificate attributes at the first two reads
    certB,              \* the certificate attributes at the third read
    certIds             \* what the createCertificateID calls returned, in call order

callVars == <<op, pc, cancelled, cancelledAt, queriesAtCancel, okResponse, acceptedResponse,
          submitErr, err, validationResponse, validationId, taskId, outcome,
          issuedCancelled, queryErr, nSubmits, nQueries, nSleeps, sleptSeconds,
          nRunning, queryIds, lastPayload, waits>>

\* the listing and what the read paths returned
certVars == <<listPayload, resourceFqdn, retCert, retCerts>>

\* the inputs and results of the fingerprint computations
hashVars == <<fieldsA, fieldsB, hashResults, certShape, certA, certB, certIds>>

\* the locals of the write paths other than op and pc
callLocals == <<cancelled, cancelledAt, queriesAtCancel, okResponse, acceptedResponse,
                submitErr, err, validationResponse, validationId, taskId, outcome,
                issuedCancelled, queryErr, nSubmits, nQueries, nSleeps, sleptSeconds,
                nRunning, queryIds, lastPayload, waits>>

\* what the validation and generation paths never touch
idleVars == <<certVars, hashVars>>

vars == <<callVars, idleVars>>

\* the caller's context
ctxVars == <<cancelled, cancelledAt, queriesAtCancel>>
\* what the submit call returned
submitVars == <<okResponse, acceptedResponse, submitErr, nSubmits>>
\* the record of the status queries and sleeps
pollVars == <<issuedCancelled, queryErr, nQueries, nSleeps, sleptSeconds, nRunning, queryIds,
              lastPayload>>

\* a nil *models.Certificate
NoCert == [isNil |-> TRUE, issuedTo |-> Absent, serialNumber |-> 0]
\* a response of GetCertificatesByDomain without payload
NilPayload == [isNil |-> TRUE, elements |-> <<>>]

(***************************************************************************)
(* Strings are sequences of characters, so that concatenation is real.     *)
(***************************************************************************)
MaxStrLen == 2
MaxFields == 2
\* calls made on one pair of inputs: input A, input A again, input B
CallsPerRun == 3

Chars == {"a", "b"}
\* every string over chars of length at most n
StringsOver(chars, n) == UNION { [1..k -> chars] : k \in 0..n }
FieldStrings == StringsOver(Chars, MaxStrLen)
FieldLists == UNION { [1..k -> FieldStrings] : k \in 0..MaxFields }

\* the orderings of a field sequence
PermutationsOf(fields) ==
    { [i \in 1..Len(fields) |-> fields[f[i]]] :
        f \in { g \in [1..Len(fields) -> 1..Len(fields)] :
                  \A i, j \in 1..Len(fields) : g[i] = g[j] => i = j } }

RECURSIVE Join(_)
\* strings.Join(fields, "")
Join(fields) ==
    IF fields = <<>> THEN <<>> ELSE Head(fields) \o Join(Tail(fields))

\* hex.EncodeToString(md5.Sum(nil)) of the bytes written, injective on them
Md5Hex(written) == <<"md5:">> \o written

\* lines 288-297; io.WriteString on an md5 hash never returns an error
HashFields(fields) ==
    [hash |-> Md5Hex(Join(fields)), err |-> NoError]

\* a value of the map[string]interface{} read from the schema
NilValue == [t |-> "nil", s |-> <<>>, n |-> 0, b |-> FALSE]
StringValue(str) == [t |-> "string", s |-> str, n |-> 0, b |-> FALSE]
IntValue(i) == [t |-> "int", s |-> <<>>, n |-> i, b |-> FALSE]
BoolValue(v) == [t |-> "bool", s |-> <<>>, n |-> 0, b |-> v]
ListValue(l) == [t |-> "list", s |-> l, n |-> 0, b |-> FALSE]

\* data_certificates.go lines 427-432
getString(certMap, key) ==
    IF key \in DOMAIN certMap /\ certMap[key].t = "string" THEN certMap[key].s ELSE <<>>

Digits == <<"0", "1", "2", "3", "4", "5", "6", "7", "8", "9">>
RECURSIVE Itoa(_)
\* strconv.Itoa of a non-negative int
Itoa(i) ==
    IF i < 10 THEN <<Digits[i + 1]>> ELSE Itoa(i \div 10) \o <<Digits[(i % 10) + 1]>>

\* data_certificates.go lines 435-440
getIntAsString(certMap, key) ==
    IF key \in DOMAIN certMap /\ certMap[key].t = "int" THEN Itoa(certMap[key].n) ELSE <<>>

\* data_certificates.go lines 442-450
getBoolAsString(certMap, key) ==
    IF key \in DOMAIN certMap /\ certMap[key].t = "bool"
    THEN IF certMap[key].b THEN <<"t", "r", "u", "e">> ELSE <<"f", "a", "l", "s", "e">>
    ELSE <<>>

\* data_certificates.go lines 397-415: params in the order they are appended
CertificateParams(certMap) ==
    << getString(certMap, "domain"),
       getString(certMap, "certificate_error"),
       getString(certMap, "expiration_status"),
       getBoolAsString(certMap, "is_installed"),
       getString(certMap, "issued_by"),
       getString(certMap, "issued_to"),
       getString(certMap, "key_size"),
       getString(certMap, "not_after"),
       getString(certMap, "not_before"),
       getIntAsString(certMap, "number_of_days_to_expire"),
       getString(certMap, "pem_encoded"),
       getString(certMap, "public_key"),
       getString(certMap, "public_key_algorithm"),
       getString(certMap, "serial_number"),
       getString(certMap, "signature_algorithm"),
       getString(certMap, "subject"),
       getString(certMap, "thumbprint"),
       getString(certMap, "thumbprint_algorithm"),
       getString(certMap, "version") >>

\* what a createCertificateID call comes to
IdResult(kind, id) == [kind |-> kind, id |-> id]

\* data_certificates.go lines 386-424
createCertificateID(shape, certMap) ==
    IF shape # "map" /\ shape # "nilmap"
    THEN \* data.Get("certificate").(map[string]interface{}) on another dynamic type
         IdResult("panic", <<>>)
    ELSE IF shape = "nilmap"
    THEN IdResult("error", <<>>)
    ELSE IdResult("ok", HashFields(CertificateParams(certMap)).hash)

\* dynamic types data.Get("certificate") is modelled with: the []interface{} of
\* the schema's TypeList, a nil map, a map
CertShapes == {"list", "nilmap", "map"}

\* values an optional string attribute takes
OptionalStrings == {NilValue} \cup { StringValue(str) : str \in StringsOver({"a"}, MaxStrLen) }

\* the attribute maps of a certificate; the attributes not listed are unset
CertMaps ==
    { [domain |-> StringValue(<<"d">>),
       is_installed |-> inst,
       issued_by |-> by,
       issued_to |-> to,
       number_of_days_to_expire |-> days,
       subject_alternative_name |-> san] :
        inst \in {NilValue, BoolValue(TRUE)},
        by \in OptionalStrings,
        to \in OptionalStrings,
        days \in {NilValue, IntValue(1)},
        san \in {NilValue, ListValue(<<"a">>)} }

\* a map without entries
EmptyCertMap ==
    [domain |-> NilValue, is_installed |-> NilValue, issued_by |-> NilValue,
     issued_to |-> NilValue, number_of_days_to_expire |-> NilValue,
     subject_alternative_name |-> NilValue]

\* no fingerprint has been asked for
HashIdle ==
    /\ fieldsA = <<>>
    /\ fieldsB = <<>>
    /\ hashResults = <<>>
    /\ certShape = "map"
    /\ certA = EmptyCertMap
    /\ certB = EmptyCertMap
    /\ certIds = <<>>

\* no listing has been fetched
CertsIdle ==
    /\ listPayload = NilPayload
    /\ resourceFqdn = EmptyId
    /\ retCert = NoCert
    /\ retCerts = <<>>

\* the state of a call at its entry
CallStart ==
    /\ pc = "start"
    /\ cancelled = FALSE
    /\ cancelledAt = "never"
    /\ queriesAtCancel = 0
    /\ okResponse = NilBranch
    /\ acceptedResponse = NilBranch
    /\ submitErr = NoError
    /\ err = NoError
    /\ validationResponse = NilTask
    /\ validationId = Absent
    /\ taskId = EmptyId
    /\ outcome = NoOutcome
    /\ issuedCancelled = FALSE
    /\ queryErr = NoError
    /\ nSubmits = 0
    /\ nQueries = 0
    /\ nSleeps = 0
    /\ sleptSeconds = 0
    /\ nRunning = 0
    /\ queryIds = {}
    /\ lastPayload = NilTask
    /\ waits = <<>>

Init ==
    /\ op \in {"validate", "generate"}
    /\ CallStart
    /\ CertsIdle
    /\ HashIdle

(***************************************************************************)
(* The caller's cancellation signal fires.                                 *)
(***************************************************************************)
Cancel ==
    /\ pc # "done"
    /\ ~cancelled
    /\ cancelled' = TRUE
    /\ cancelledAt' = pc
    /\ queriesAtCancel' = nQueries
    /\ UNCHANGED <<idleVars, op, pc, err, validationResponse, validationId, taskId, outcome>>
    /\ UNCHANGED <<submitVars, pollVars, waits>>

(***************************************************************************)
(* ValidateResourceCertificates.                                           *)
(***************************************************************************)
\* lines 34-41: the accepted branch is assigned last and wins
SelectValidationResponse(ok, accepted) ==
    IF ~accepted.isNil THEN accepted
    ELSE IF ~ok.isNil THEN ok
    ELSE NilTask

\* FinalResult without the failure check of lines 70-72
FinalResult_ignoreFailure(e, task) ==
    IF e # NoError THEN ConvertVcfErrorToDiag(e) ELSE Success

\* FinalResult reporting a failure as one entry that names no resource
FinalResult_collapsed(e, task) ==
    IF e # NoError THEN ConvertVcfErrorToDiag(e)
    ELSE IF HaveCertificateValidationsFailed(task)
         THEN [kind |-> "ValidationFailed", err |-> NoError,
               report |-> <<[resourceFqdn |-> 0, messages |-> <<>>]>>]
         ELSE Success

\* lines 67-74: the result once the response is finished
FinalResult(e, task) ==
    IF e # NoError THEN ConvertVcfErrorToDiag(e)
    ELSE IF HaveCertificateValidationsFailed(task)
         THEN ConvertCertificateValidationsResultToDiag(task)
         ELSE Success

\* ClassifySubmit that polls once even when the response is already finished
ClassifySubmit_alwaysPoll(e, task) ==
    IF e # NoError THEN "error"
    ELSE IF task.isNil THEN "neither"
    ELSE IF HaveCertificateValidationsFailed(task) THEN "failed"
    ELSE "pending"

\* ClassifySubmit that polls a failed response before reporting it
ClassifySubmit_pollFailed(e, task) ==
    IF e # NoError THEN "error"
    ELSE IF task.isNil THEN "neither"
    ELSE IF HaveCertificateValidationsFailed(task) THEN "pending"
    ELSE IF HasCertificateValidationFinished(task) THEN "finished"
    ELSE "pending"

\* lines 42-50: which way the function goes on the submit response
ClassifySubmit(e, task) ==
    IF e # NoError THEN "error"
    ELSE IF task.isNil THEN "neither"
    ELSE IF HaveCertificateValidationsFailed(task) THEN "failed"
    ELSE IF HasCertificateValidationFinished(task) THEN "finished"
    ELSE "pending"

\* lines 42-50 and 67-74: what the call returns without polling
SubmitOutcome(e, task) ==
    CASE ClassifySubmit(e, task) = "error" -> ConvertVcfErrorToDiag(e)
      [] ClassifySubmit(e, task) = "neither" -> Panic
      [] ClassifySubmit(e, task) = "failed" -> ConvertCertificateValidationsResultToDiag(task)
      [] ClassifySubmit(e, task) = "finished" -> FinalResult(e, task)
      [] OTHER -> NoOutcome

\* lines 35-50: the submit call and everything up to the loop
SubmitValidation(e, ok, accepted) ==
    /\ op = "validate"
    /\ pc = "start"
    /\ cancelled => e = CtxCancelled
    /\ e = CtxCancelled => cancelled
    /\ e # NoError => (ok.isNil /\ accepted.isNil)
    /\ nSubmits' = nSubmits + 1
    /\ okResponse' = BranchOfTask(ok)
    /\ acceptedResponse' = BranchOfTask(accepted)
    /\ submitErr' = e
    /\ err' = e
    /\ validationResponse' = SelectValidationResponse(ok, accepted)
    /\ validationId' = IF ClassifySubmit(e, validationResponse') \in {"finished", "pending"}
                       THEN validationResponse'.validationId ELSE validationId
    /\ outcome' = SubmitOutcome(e, validationResponse')
    /\ pc' = IF ClassifySubmit(e, validationResponse') = "pending" THEN "poll" ELSE "done"
    /\ UNCHANGED <<idleVars, op, taskId, waits>>
    /\ UNCHANGED <<ctxVars, pollVars>>

\* QueryId that follows the id of the latest snapshot
QueryId_fromSnapshot == validationResponse.validationId

\* line 55: the id the status query is issued with
QueryId == validationId

\* IssueQuery with an iteration cap: the call gives up after two queries
IssueQuery_capped ==
    /\ op = "validate"
    /\ pc = "poll"
    /\ nQueries < MaxPolls
    /\ IF QueryId = Absent \/ nQueries >= 2
       THEN /\ pc' = "done"
            /\ outcome' = IF QueryId = Absent THEN Panic ELSE ConvertVcfErrorToDiag(CallTimeout)
            /\ UNCHANGED <<issuedCancelled, nQueries, queryIds>>
       ELSE /\ pc' = "inflight"
            /\ nQueries' = nQueries + 1
            /\ queryIds' = queryIds \cup {QueryId}
            /\ issuedCancelled' = cancelled
            /\ UNCHANGED outcome
    /\ UNCHANGED <<idleVars, op, err, validationResponse, validationId, taskId, waits>>
    /\ UNCHANGED <<queryErr, nSleeps, sleptSeconds, nRunning, lastPayload>>
    /\ UNCHANGED <<ctxVars, submitVars>>

\* lines 52-56: one status query is issued
IssueQuery ==
    /\ op = "validate"
    /\ pc = "poll"
    /\ nQueries < MaxPolls
    /\ IF QueryId = Absent
       THEN \* *validationId dereferences a nil pointer
            /\ pc' = "done"
            /\ outcome' = Panic
            /\ UNCHANGED <<issuedCancelled, nQueries, queryIds>>
       ELSE /\ pc' = "inflight"
            /\ nQueries' = nQueries + 1
            /\ queryIds' = queryIds \cup {QueryId}
            /\ issuedCancelled' = cancelled
            /\ UNCHANGED outcome
    /\ UNCHANGED <<idleVars, op, err, validationResponse, validationId, taskId, waits>>
    /\ UNCHANGED <<queryErr, nSleeps, sleptSeconds, nRunning, lastPayload>>
    /\ UNCHANGED <<ctxVars, submitVars>>

\* QueryError that sleeps and queries again instead of returning
QueryError_retry(e) ==
    /\ op = "validate"
    /\ pc = "inflight"
    /\ e = CtxCancelled => cancelled
    /\ issuedCancelled => e = CtxCancelled
    /\ queryErr' = e
    /\ pc' = "sleep"
    /\ nSleeps' = nSleeps + 1
    /\ sleptSeconds' = sleptSeconds + PollInterval
    /\ UNCHANGED <<idleVars, op, err, validationResponse, validationId, taskId, outcome, waits>>
    /\ UNCHANGED <<issuedCancelled, nQueries, nRunning, queryIds, lastPayload>>
    /\ UNCHANGED <<ctxVars, submitVars>>

\* QueryError that retries a per-call timeout while ctx is not done
QueryError_retryTimeout(e) ==
    /\ op = "validate"
    /\ pc = "inflight"
    /\ e = CtxCancelled => cancelled
    /\ issuedCancelled => e = CtxCancelled
    /\ queryErr' = e
    /\ IF e = CallTimeout /\ ~cancelled
       THEN /\ pc' = "poll"
            /\ UNCHANGED outcome
       ELSE /\ pc' = "done"
            /\ outcome' = ConvertVcfErrorToDiag(e)
    /\ UNCHANGED <<idleVars, op, err, validationResponse, validationId, taskId, waits>>
    /\ UNCHANGED <<issuedCancelled, nQueries, nSleeps, sleptSeconds, nRunning, queryIds,
                   lastPayload>>
    /\ UNCHANGED <<ctxVars, submitVars>>

\* lines 57-59: the status query returned an error
QueryError(e) ==
    /\ op = "validate"
    /\ pc = "inflight"
    /\ e = CtxCancelled => cancelled
    /\ issuedCancelled => e = CtxCancelled
    /\ queryErr' = e
    /\ pc' = "done"
    /\ outcome' = ConvertVcfErrorToDiag(e)
    /\ UNCHANGED <<idleVars, op, err, validationResponse, validationId, taskId, waits>>
    /\ UNCHANGED <<issuedCancelled, nQueries, nSleeps, sleptSeconds, nRunning, queryIds,
                   lastPayload>>
    /\ UNCHANGED <<ctxVars, submitVars>>

\* LoopExit that leaves the loop on success only
LoopExit_onSuccessOnly(task) ==
    /\ ~task.isNil
    /\ task.overallStatus = "SUCCEEDED"

\* lines 61-63: the loop is left once the snapshot is finished
LoopExit(task) == HasCertificateValidationFinished(task)

\* lines 60-64, 67-74: the status query returned a snapshot
QueryPayload(task) ==
    /\ op = "validate"
    /\ pc = "inflight"
    /\ ~issuedCancelled
    /\ validationResponse' = task
    /\ lastPayload' = task
    /\ nRunning' = nRunning + (IF HasCertificateValidationFinished(task) THEN 0 ELSE 1)
    /\ IF LoopExit(task)
       THEN /\ pc' = "done"
            /\ outcome' = FinalResult(err, task)
            /\ UNCHANGED <<nSleeps, sleptSeconds>>
       ELSE /\ pc' = "sleep"
            /\ nSleeps' = nSleeps + 1
            /\ sleptSeconds' = sleptSeconds + PollInterval
            /\ UNCHANGED outcome
    /\ UNCHANGED <<idleVars, op, err, validationId, taskId, waits>>
    /\ UNCHANGED <<issuedCancelled, queryErr, nQueries, queryIds>>
    /\ UNCHANGED <<ctxVars, submitVars>>

\* line 64: time.Sleep returns after the fixed interval, whatever ctx says
WakeUp ==
    /\ op = "validate"
    /\ pc = "sleep"
    /\ pc' = "poll"
    /\ UNCHANGED <<idleVars, op, err, validationResponse, validationId, taskId, outcome, waits>>
    /\ UNCHANGED <<ctxVars, submitVars, pollVars>>

(***************************************************************************)
(* GenerateCertificateForResource.                                         *)
(***************************************************************************)
\* a nil response branch of GenerateCertificates
NilTaskRef == [isNil |-> TRUE, id |-> Absent, overallStatus |-> "NONE"]
\* the task references a response branch of GenerateCertificates can carry
TaskRefs == { [isNil |-> FALSE, id |-> t, overallStatus |-> "NONE"] : t \in TaskIds }

\* SelectTaskId that prefers the OK branch
SelectTaskId_okFirst(ok, accepted) ==
    IF ~ok.isNil THEN ok.id
    ELSE IF ~accepted.isNil THEN accepted.id
    ELSE EmptyId

\* lines 112-122: taskId starts empty, the accepted branch is assigned last
SelectTaskId(ok, accepted) ==
    IF ~accepted.isNil THEN accepted.id
    ELSE IF ~ok.isNil THEN ok.id
    ELSE EmptyId

\* lines 115, 125: an error is returned as it is
ReturnError(e) == [kind |-> "error", err |-> e, report |-> <<>>]

\* line 123: the arguments of the task wait
WaitCall(id) == [taskId |-> id, stopOnFailure |-> TRUE]

\* lines 113-123: the submit call up to the call of WaitForTaskComplete
SubmitGeneration(e, ok, accepted) ==
    /\ op = "generate"
    /\ pc = "start"
    /\ cancelled => e = CtxCancelled
    /\ e = CtxCancelled => cancelled
    /\ e # NoError => (ok.isNil /\ accepted.isNil)
    /\ nSubmits' = nSubmits + 1
    /\ okResponse' = ok
    /\ acceptedResponse' = accepted
    /\ submitErr' = e
    /\ err' = e
    /\ IF e # NoError
       THEN /\ pc' = "done"
            /\ outcome' = ReturnError(e)
            /\ UNCHANGED <<taskId, waits>>
       ELSE /\ pc' = "waiting"
            /\ taskId' = SelectTaskId(ok, accepted)
            /\ waits' = Append(waits, WaitCall(taskId'))
            /\ UNCHANGED outcome
    /\ UNCHANGED <<idleVars, op, validationResponse, validationId>>
    /\ UNCHANGED <<ctxVars, pollVars>>

\* lines 123-127: WaitForTaskComplete returned
WaitReturn(e) ==
    /\ op = "generate"
    /\ pc = "waiting"
    /\ e = CtxCancelled => cancelled
    /\ err' = e
    /\ pc' = "done"
    /\ outcome' = IF e # NoError THEN ReturnError(e) ELSE Success
    /\ UNCHANGED <<idleVars, op, validationResponse, validationId, taskId, waits>>
    /\ UNCHANGED <<ctxVars, submitVars, pollVars>>

(***************************************************************************)
(* GetCertificateForResourceInDomain and ReadCertificates.                 *)
(***************************************************************************)
\* values of a certificate's IssuedTo (*string)
IssuedToValues == {Absent, "host-a", "host-b"}
\* FQDNs a caller asks for
RequestedFqdns == {"host-a", "host-z"}
\* serial numbers that tell certificates with the same IssuedTo apart
SerialNumbers == {1, 2}

\* the certificates a listing can carry
Certificates ==
    { [isNil |-> FALSE, issuedTo |-> t, serialNumber |-> n] :
        t \in IssuedToValues, n \in SerialNumbers }

\* Payload.Elements: every list of at most MaxCerts certificates; the empty
\* list stands for a nil slice as well as for an empty one
ElementLists ==
    UNION { [1..n -> Certificates] : n \in 0..MaxCerts }

\* the payloads a successful GetCertificatesByDomain can carry
ListPayloads ==
    {NilPayload} \cup { [isNil |-> FALSE, elements |-> l] : l \in ElementLists }

\* FirstMatch that keeps scanning and returns the last match
RECURSIVE FirstMatch_last(_, _, _)
FirstMatch_last(elements, fqdn, i) ==
    IF i > Len(elements) THEN NoCert
    ELSE IF FirstMatch_last(elements, fqdn, i + 1) # NoCert
         THEN FirstMatch_last(elements, fqdn, i + 1)
         ELSE IF elements[i].issuedTo # Absent /\ elements[i].issuedTo = fqdn
              THEN elements[i]
              ELSE NoCert

RECURSIVE FirstMatch(_, _, _)
\* lines 89-94: the scan of allCertsForDomain from position i on
FirstMatch(elements, fqdn, i) ==
    IF i > Len(elements) THEN NoCert
    ELSE IF elements[i].issuedTo # Absent /\ elements[i].issuedTo = fqdn
         THEN elements[i]
         ELSE FirstMatch(elements, fqdn, i + 1)

\* lines 79-95: GetCertificateForResourceInDomain, the whole call
FindCertificate(e, payload, fqdn) ==
    /\ op = "find"
    /\ pc = "start"
    /\ e # NoError => payload = NilPayload
    /\ err' = e
    /\ listPayload' = payload
    /\ resourceFqdn' = fqdn
    /\ pc' = "done"
    /\ IF e # NoError
       THEN /\ outcome' = ReturnError(e)
            /\ retCert' = NoCert
       ELSE IF payload.isNil
       THEN \* certificatesResponse.Payload.Elements dereferences a nil pointer
            /\ outcome' = Panic
            /\ retCert' = NoCert
       ELSE /\ outcome' = Success
            /\ retCert' = FirstMatch(payload.elements, fqdn, 1)
    /\ UNCHANGED <<op, validationResponse, validationId, taskId, waits, retCerts, hashVars>>
    /\ UNCHANGED <<ctxVars, submitVars, pollVars>>

\* lines 131-157: ReadCertificates, the whole call
ReadCertificates(e, payload) ==
    /\ op = "read"
    /\ pc = "start"
    /\ e # NoError => payload = NilPayload
    /\ err' = e
    /\ listPayload' = payload
    /\ pc' = "done"
    /\ IF e # NoError
       THEN /\ outcome' = ReturnError(e)
            /\ retCerts' = <<>>
       ELSE IF payload.isNil
       THEN \* line 156 dereferences the payload that line 143 found to be nil
            /\ outcome' = Panic
            /\ retCerts' = <<>>
       ELSE /\ outcome' = Success
            /\ retCerts' = payload.elements
    /\ UNCHANGED <<op, validationResponse, validationId, taskId, waits, resourceFqdn, retCert,
                   hashVars>>
    /\ UNCHANGED <<ctxVars, submitVars, pollVars>>

InitCerts ==
    /\ op \in {"find", "read"}
    /\ CallStart
    /\ CertsIdle
    /\ HashIdle

NextCerts ==
    \/ /\ op = "find" /\ pc = "start"
       /\ \E e \in Errors \cup {NoError}, payload \in ListPayloads, fqdn \in RequestedFqdns :
             FindCertificate(e, payload, fqdn)
    \/ /\ op = "read" /\ pc = "start"
       /\ \E e \in Errors \cup {NoError}, payload \in ListPayloads : ReadCertificates(e, payload)

SpecCerts == InitCerts /\ [][NextCerts]_vars

(***************************************************************************)
(* HashFields and createCertificateID, called on A, on A again and on B.   *)
(***************************************************************************)
\* one call of HashFields
HashFieldsCall ==
    /\ op = "hash"
    /\ pc # "done"
    /\ Len(hashResults) < CallsPerRun
    /\ hashResults' =
          Append(hashResults, HashFields(IF Len(hashResults) < 2 THEN fieldsA ELSE fieldsB))
    /\ pc' = IF Len(hashResults) + 1 = CallsPerRun THEN "done" ELSE "hashing"
    /\ UNCHANGED <<op, callLocals, certVars, fieldsA, fieldsB, certShape, certA, certB, certIds>>

\* one call of createCertificateID
CreateCertificateIDCall ==
    /\ op = "certid"
    /\ pc # "done"
    /\ Len(certIds) < CallsPerRun
    /\ certIds' =
          Append(certIds, createCertificateID(certShape, IF Len(certIds) < 2 THEN certA ELSE certB))
    /\ pc' = IF Len(certIds) + 1 = CallsPerRun THEN "done" ELSE "hashing"
    /\ UNCHANGED <<op, callLocals, certVars, fieldsA, fieldsB, hashResults, certShape, certA, certB>>

InitHash ==
    /\ op \in {"hash", "certid"}
    /\ CallStart
    /\ CertsIdle
    /\ hashResults = <<>>
    /\ certIds = <<>>
    /\ IF op = "hash"
       THEN /\ fieldsA \in FieldLists
            /\ fieldsB \in PermutationsOf(fieldsA)
            /\ certShape = "map"
            /\ certA = EmptyCertMap
            /\ certB = EmptyCertMap
       ELSE /\ fieldsA = <<>>
            /\ fieldsB = <<>>
            /\ certShape \in CertShapes
            /\ IF certShape = "map"
               THEN certA \in CertMaps /\ certB \in CertMaps
               ELSE certA = EmptyCertMap /\ certB = EmptyCertMap

NextHash ==
    \/ HashFieldsCall
    \/ CreateCertificateIDCall

SpecHash == InitHash /\ [][NextHash]_vars

\* the inputs of each step are drawn where the step is enabled
Next ==
    \/ Cancel
    \/ /\ op = "validate" /\ pc = "start"
       /\ \E e \in Errors \cup {NoError}, ok \in ValidationTasks \cup {NilTask},
             accepted \in ValidationTasks \cup {NilTask} : SubmitValidation(e, ok, accepted)
    \/ IssueQuery
    \/ /\ pc = "inflight"
       /\ \E e \in Errors : QueryError(e)
    \/ /\ pc = "inflight"
       /\ \E task \in ValidationTasks : QueryPayload(task)
    \/ WakeUp
    \/ /\ op = "generate" /\ pc = "start"
       /\ \E e \in Errors \cup {NoError}, ok \in TaskRefs \cup {NilTaskRef},
             accepted \in TaskRefs \cup {NilTaskRef} : SubmitGeneration(e, ok, accepted)
    \/ /\ pc = "waiting"
       /\ \E e \in Errors \cup {NoError} : WaitReturn(e)

Spec == Init /\ [][Next]_vars

(***************************************************************************)
(* The validation call alone, with every step of the call eventually taken *)
(* and the cancellation signal free to fire or not.                        *)
(***************************************************************************)
\* snapshots without per-resource results: the loop reads the overall status only
LiveTasks ==
    { t \in ValidationTasks :
        t.perResourceResults = <<>> /\ t.validationId \in {Absent, "V1"} }

InitLive ==
    /\ op = "validate"
    /\ CallStart
    /\ CertsIdle
    /\ HashIdle

\* the steps of the call itself: remote calls return, time.Sleep ends
LiveStep ==
    \/ /\ op = "validate" /\ pc = "start"
       /\ \E e \in Errors \cup {NoError}, ok \in LiveTasks \cup {NilTask},
             accepted \in LiveTasks \cup {NilTask} : SubmitValidation(e, ok, accepted)
    \/ IssueQuery
    \/ /\ pc = "inflight"
       /\ \E e \in Errors : QueryError(e)
    \/ /\ pc = "inflight"
       /\ \E task \in LiveTasks : QueryPayload(task)
    \/ WakeUp

NextLive ==
    \/ Cancel
    \/ LiveStep

SpecLive == InitLive /\ [][NextLive]_vars /\ WF_vars(LiveStep)

(***************************************************************************)
(* Properties.                                                             *)
(***************************************************************************)
\* indices of the resources whose individual status indicates failure
FailedIndices(task) ==
    { i \in 1..Len(task.perResourceResults) : task.perResourceResults[i].status = "FAILED" }

\* the call returned the failure of a done ctx
ReturnedCancelled == outcome.kind = "error" /\ outcome.err = CtxCancelled

\* status queries issued when ctx was already done
QueriesAfterCancel == IF cancelled THEN nQueries - queriesAtCancel ELSE 0

\* the submit response the function works on: the 202 branch when present
SubmitBranch == IF ~acceptedResponse.isNil THEN acceptedResponse ELSE okResponse

\* the submit returned no error and at least one branch
SubmitAnswered ==
    /\ nSubmits = 1
    /\ submitErr = NoError
    /\ ~SubmitBranch.isNil

\* the last validation snapshot the call has seen
LastSnapshot == IF ~lastPayload.isNil THEN lastPayload ELSE validationResponse

\* C1: once ctx is done during a sleep or a status query in flight, no status
\* query is issued any more and the call returns the cancellation failure.
C1_CancelledMidPollStops ==
    cancelledAt \in {"sleep", "inflight"} =>
        /\ QueriesAfterCancel = 0
        /\ pc = "done" => ReturnedCancelled

\* C2: when ctx is done before the first status query of a pending validation,
\* no status query is issued and the call returns the cancellation failure.
C2_CancelledBeforeFirstQuery ==
    (cancelledAt = "poll" /\ queriesAtCancel = 0 /\ validationId \notin {Absent, EmptyId}) =>
        /\ nQueries = 0
        /\ pc = "done" => ReturnedCancelled

\* C3: k unfinished snapshots followed by a finished one take exactly k+1
\* status queries and k sleeps, and the result is that of the last snapshot.
C3_PollCounts ==
    op = "validate" =>
        /\ nQueries <= nRunning + 1
        /\ nSleeps = nRunning
        /\ sleptSeconds = nRunning * PollInterval
        /\ (pc = "done" /\ nQueries > 0 /\ queryErr = NoError) =>
              /\ nQueries = nRunning + 1
              /\ HasCertificateValidationFinished(lastPayload)
              /\ validationResponse = lastPayload
              /\ outcome = (IF HaveCertificateValidationsFailed(lastPayload)
                            THEN ConvertCertificateValidationsResultToDiag(lastPayload)
                            ELSE Success)

\* C3 witness: Running, Running, Succeeded: three queries, two sleeps, success
C3_Witness ==
    /\ op = "validate" /\ pc = "done"
    /\ nQueries = 3 /\ nSleeps = 2 /\ nRunning = 2 /\ sleptSeconds = 20
    /\ lastPayload.overallStatus = "SUCCEEDED"
    /\ outcome = Success

\* the submit response already carries a finished status
ImmediatelyTerminal ==
    /\ op = "validate"
    /\ SubmitAnswered
    /\ SubmitBranch.overallStatus # "IN_PROGRESS"

\* C4 as claimed: an immediately terminal response costs exactly one status
\* query and no sleep.
C4_OneQueryWhenImmediate ==
    (ImmediatelyTerminal /\ pc = "done") => (nQueries = 1 /\ nSleeps = 0)

\* C4 amended: an immediately terminal response makes the call return after
\* the submit alone, with no status query and no sleep.
C4_NoQueryWhenImmediate ==
    ImmediatelyTerminal => (pc = "done" /\ nSubmits = 1 /\ nQueries = 0 /\ nSleeps = 0)

\* C4 witness: a finished, successful submit response has been returned on
C4_Witness ==
    /\ ImmediatelyTerminal
    /\ SubmitBranch.overallStatus = "SUCCEEDED"
    /\ pc = "done" /\ outcome = Success

\* C5: a submit that returns no error and neither branch ends the call at once
\* with an InvalidResponse error, without any status query or task wait.
C5_NeitherBranchIsInvalidResponse ==
    (nSubmits = 1 /\ submitErr = NoError /\ okResponse.isNil /\ acceptedResponse.isNil) =>
        /\ pc = "done"
        /\ outcome.kind = "InvalidResponse"
        /\ nQueries = 0
        /\ waits = <<>>

\* C6: every status query and every task wait is issued with an id that is
\* present and non-empty; a response without an id ends the call with an error.
C6_IssuedIdsNonEmpty ==
    /\ \A id \in queryIds : id \notin {Absent, EmptyId}
    /\ \A i \in 1..Len(waits) : waits[i].taskId \notin {Absent, EmptyId}
    /\ (pc = "done" /\ SubmitAnswered /\ SubmitBranch.id \in {Absent, EmptyId}
          /\ SubmitBranch.overallStatus \in {"IN_PROGRESS", "NONE"}) =>
            outcome.kind = "error"

\* C7: an error of a status query ends the call at once with that error, with
\* no sleep and no query after it; an error of the submit ends it with that
\* error before any status query.
C7_ErrorsReturnedAtOnce ==
    op = "validate" =>
        /\ queryErr # NoError =>
              /\ pc = "done"
              /\ outcome = ConvertVcfErrorToDiag(queryErr)
              /\ nSleeps = nRunning
              /\ nQueries = nRunning + 1
        /\ submitErr # NoError =>
              /\ pc = "done"
              /\ outcome = ConvertVcfErrorToDiag(submitErr)
              /\ nQueries = 0 /\ nSleeps = 0

\* C7 witness: the second status query failed and the call returned its error
C7_Witness ==
    /\ op = "validate" /\ pc = "done"
    /\ queryErr = TransportFailure
    /\ nQueries = 2 /\ nSleeps = 1
    /\ outcome = ConvertVcfErrorToDiag(TransportFailure)

\* C8 as claimed: while ctx is not done, a per-call timeout of a status query
\* does not end the call (a further status query follows).
C8_TimeoutIsRetried ==
    (op = "validate" /\ queryErr = CallTimeout /\ ~cancelled) => pc # "done"

\* C8 amended: a per-call timeout of a status query is never retried; the call
\* returns that timeout at once, whether or not ctx is done.
C8_TimeoutNotRetried ==
    (op = "validate" /\ queryErr = CallTimeout) =>
        /\ pc = "done"
        /\ outcome.kind = "error" /\ outcome.err = CallTimeout

\* C8 witness: the first status query timed out while ctx was not done
C8_Witness ==
    /\ op = "validate" /\ pc = "done"
    /\ queryErr = CallTimeout /\ ~cancelled
    /\ nQueries = 1

\* C9: the call returns success exactly when no call failed and the last
\* snapshot seen is finished and not failed; a failed last snapshot is
\* returned as its report.
C9_SuccessIff ==
    (op = "validate" /\ pc = "done") =>
        /\ outcome = Success <=>
              /\ submitErr = NoError /\ queryErr = NoError
              /\ HasCertificateValidationFinished(LastSnapshot)
              /\ ~HaveCertificateValidationsFailed(LastSnapshot)
        /\ HaveCertificateValidationsFailed(LastSnapshot) =>
              outcome = ConvertCertificateValidationsResultToDiag(LastSnapshot)

\* C9 witness: async id "V1", then IN_PROGRESS, then SUCCEEDED without failures
C9_Witness ==
    /\ op = "validate" /\ pc = "done"
    /\ okResponse.isNil /\ acceptedResponse.id = "V1"
    /\ queryIds = {"V1"}
    /\ nQueries = 2 /\ nRunning = 1
    /\ lastPayload.overallStatus = "SUCCEEDED"
    /\ FailedIndices(lastPayload) = {}
    /\ outcome = Success

\* C10: the report of a failed validation has exactly one entry per failing
\* resource, with that resource's messages, and no entry for any other.
C10_ReportPerFailedResource ==
    (op = "validate" /\ pc = "done" /\ outcome.kind = "ValidationFailed") =>
        LET res == LastSnapshot.perResourceResults
            rep == outcome.report
            failed == FailedIndices(LastSnapshot)
        IN /\ Len(rep) = Cardinality(failed)
           /\ \A i \in failed : \E j \in 1..Len(rep) :
                 rep[j] = [resourceFqdn |-> res[i].resourceFqdn, messages |-> res[i].messages]
           /\ \A j \in 1..Len(rep) : \E i \in failed :
                 rep[j] = [resourceFqdn |-> res[i].resourceFqdn, messages |-> res[i].messages]

\* C10 witness: three resources, only the second failed, one entry for it
C10_Witness ==
    /\ op = "validate" /\ pc = "done"
    /\ nQueries > 0
    /\ Len(lastPayload.perResourceResults) = 3
    /\ FailedIndices(lastPayload) = {2}
    /\ outcome.kind = "ValidationFailed"
    /\ outcome.report = <<[resourceFqdn |-> 2, messages |-> <<21, 22>>]>>

(***************************************************************************)
(* Properties of the read paths.                                           *)
(***************************************************************************)
\* positions of the listing whose certificate is issued to the requested FQDN
MatchingIndices ==
    { i \in 1..Len(listPayload.elements) :
        /\ listPayload.elements[i].issuedTo # Absent
        /\ listPayload.elements[i].issuedTo = resourceFqdn }

\* C11: the lookup returns absent with no error whenever the listing succeeds
\* and no certificate matches, and an error without certificate exactly when
\* the listing call fails.
C11_AbsentIsNotAnError ==
    (op = "find" /\ pc = "done") =>
        /\ (err = NoError /\ MatchingIndices = {}) => (outcome = Success /\ retCert = NoCert)
        /\ outcome.kind = "error" <=> err # NoError
        /\ err # NoError => (outcome = ReturnError(err) /\ retCert = NoCert)

\* the smallest of a non-empty set of positions
Least(S) == CHOOSE i \in S : \A j \in S : i <= j

\* C12: when a certificate issued to the requested FQDN is listed, the lookup
\* returns the first such certificate unchanged; what it returns is always a
\* listed certificate whose issuedTo is set and equals the FQDN.
C12_FirstMatchReturned ==
    (op = "find" /\ pc = "done") =>
        /\ MatchingIndices # {} =>
              /\ outcome = Success
              /\ retCert = listPayload.elements[Least(MatchingIndices)]
        /\ retCert # NoCert =>
              /\ err = NoError
              /\ MatchingIndices # {}
              /\ retCert.issuedTo = resourceFqdn
        /\ (outcome = Success /\ MatchingIndices = {}) => retCert = NoCert

\* C12 witness: two listed certificates issued to "host-a", after one with
\* no issuedTo; the lookup of "host-a" returned the first of the two
C12_Witness ==
    /\ op = "find" /\ pc = "done"
    /\ resourceFqdn = "host-a"
    /\ Len(listPayload.elements) = 3
    /\ listPayload.elements[1].issuedTo = Absent
    /\ listPayload.elements[2] = [isNil |-> FALSE, issuedTo |-> "host-a", serialNumber |-> 2]
    /\ listPayload.elements[3] = [isNil |-> FALSE, issuedTo |-> "host-a", serialNumber |-> 1]
    /\ retCert = listPayload.elements[2]

\* C13: ReadCertificates returns the elements of the listing in order, and an
\* empty sequence with no error when the listing succeeds without
\* certificates, a response without payload included.
C13_AllElementsReturned ==
    (op = "read" /\ pc = "done" /\ err = NoError) =>
        /\ outcome = Success
        /\ retCerts = listPayload.elements

(***************************************************************************)
(* Properties of the fingerprints.                                         *)
(***************************************************************************)
\* C14: two HashFields calls on the same field sequence return the same
\* fingerprint and no error, and a permutation of the sequence in a different
\* order gets a different fingerprint.
C14_PermutationsDiffer ==
    (op = "hash" /\ pc = "done") =>
        /\ hashResults[1] = hashResults[2]
        /\ hashResults[1].err = NoError
        /\ fieldsB # fieldsA => hashResults[3].hash # hashResults[1].hash

\* C15: repeated reads of an unchanged certificate get the same identifier,
\* and a certificate that differs in any attribute gets a different one.
C15_IdentifierTracksAttributes ==
    (op = "certid" /\ pc = "done") =>
        /\ certIds[1] = certIds[2]
        /\ certA # certB => certIds[3] # certIds[1]

(***************************************************************************)
(* Properties of the poll loop and of the submit resolution.               *)
(***************************************************************************)
\* C16: the poll loop ends only on an error or a finished snapshot; after k
\* unfinished snapshots out of k queries the next query is issued; and once the
\* cancellation signal has fired the call ends.
C16_NoCapAndCancelEnds ==
    /\ []((op = "validate" /\ pc = "done" /\ nQueries > 0) =>
            (queryErr # NoError \/ HasCertificateValidationFinished(lastPayload)))
    /\ \A k \in 1..(MaxPolls - 1) :
          (op = "validate" /\ nQueries = k /\ nRunning = k) ~> (nQueries = k + 1)
    /\ (op = "validate" /\ cancelled /\ nQueries < MaxPolls) ~> (pc = "done")

\* C16 witness: two unfinished snapshots, the signal fired during the second
\* sleep, the call ended with the cancellation failure of the third query
C16_Witness ==
    /\ op = "validate" /\ pc = "done"
    /\ cancelledAt = "sleep"
    /\ nRunning = 2
    /\ nQueries = 3
    /\ ReturnedCancelled

\* the call produced a result from the submit response alone
ImmediateResult ==
    /\ pc = "done"
    /\ nQueries = 0
    /\ waits = <<>>
    /\ outcome.kind # "panic"

\* the call holds a pending operation that it polls or waits on
PendingOperation ==
    /\ ~SubmitBranch.isNil
    /\ \/ nQueries > 0
       \/ waits # <<>>
       \/ pc \in {"poll", "inflight", "sleep", "waiting"}

\* C17: the Accepted branch is used whenever it is present; a response with
\* only the synchronous branch ends the call without a status query or task
\* wait; and after a submit without error exactly one of immediate result and
\* polled pending operation is in effect.
C17_SyncOnlyIsTerminal ==
    (nSubmits = 1 /\ submitErr = NoError) =>
        /\ (op = "validate" /\ pc = "poll" /\ nQueries = 0 /\ ~acceptedResponse.isNil) =>
              BranchOfTask(validationResponse) = acceptedResponse
        /\ (acceptedResponse.isNil /\ ~okResponse.isNil) =>
              (pc = "done" /\ nQueries = 0 /\ waits = <<>>)
        /\ ImmediateResult # PendingOperation

\* C18: every status query carries the validation id of the submit response,
\* whatever id later snapshots carry; the local snapshot is the payload of the
\* latest query.
C18_QueryIdFixed ==
    op = "validate" =>
        /\ queryIds \subseteq {SubmitBranch.id}
        /\ nQueries > 0 => validationId = SubmitBranch.id
        /\ ~lastPayload.isNil => validationResponse = lastPayload

\* C18 witness: two queries issued with "V1" although the first snapshot
\* carried "V2"; the snapshot held is the second payload
C18_Witness ==
    /\ op = "validate"
    /\ SubmitBranch.id = "V1"
    /\ nQueries = 2 /\ nRunning = 1
    /\ pc = "done"
    /\ queryIds = {"V1"}
    /\ lastPayload.validationId = "V2"
    /\ validationResponse = lastPayload

\* C19: generation submits once; a submit error is returned without any task
\* wait; otherwise there is exactly one wait, with stopOnFailure and the id of
\* the Accepted branch when present, else of the OK branch, and the call
\* returns what the wait returned.
C19_OneSubmitOneWait ==
    op = "generate" =>
        /\ nSubmits = (IF pc = "start" THEN 0 ELSE 1)
        /\ nQueries = 0
        /\ submitErr # NoError =>
              (pc = "done" /\ outcome = ReturnError(submitErr) /\ waits = <<>>)
        /\ (nSubmits = 1 /\ submitErr = NoError) =>
              /\ Len(waits) = 1
              /\ waits[1].stopOnFailure = TRUE
              /\ ~SubmitBranch.isNil => waits[1].taskId = SubmitBranch.id
              /\ pc = "done" => outcome = (IF err # NoError THEN ReturnError(err) ELSE Success)
              /\ pc # "done" => outcome = NoOutcome

\* C19 witness: both branches present, the wait was on the Accepted id and
\* its failure was returned
C19_Witness ==
    /\ op = "generate" /\ pc = "done"
    /\ okResponse.id = "T1" /\ acceptedResponse.id = "T2"
    /\ waits = <<[taskId |-> "T2", stopOnFailure |-> TRUE]>>
    /\ outcome = ReturnError(TransportFailure)

====
